---- MODULE Spec2Model ----
(***************************************************************************)
(* Webcomic Archiver userscript (src/comic-scraper.js).                    *)
(*                                                                         *)
(* The model covers the traversal controller (startArchival, processPage,  *)
(* the userscript entry), the image cache kept in sessionStorage           *)
(* (generateImage) and the archive builder (generateCBZ).                  *)
(*                                                                         *)
(* World: one comic site (one origin, hence one sessionStorage) with the   *)
(* pages 1..NumPages chained by their "next" links, and one further URL of *)
(* the same origin on which the userscript runs (@match) but which no      *)
(* config regex matches (for Buttersafe: the home page, which carries no   *)
(* /yyyy/mm/dd/ path).                                                     *)
(*                                                                         *)
(* Execution: JavaScript runs each callback to completion.  A processPage  *)
(* call is a task with a position pc; the positions wait, imgload, encode  *)
(* and zipping are the suspension points (await / onload / toBlob /        *)
(* generateAsync), the positions push, decide, persist, navigate and build *)
(* are inside one synchronous stretch, during which nothing else runs.     *)
(* Assigning window.location.href ends the execution context: the next     *)
(* document loads and the userscript entry runs again.                     *)
(*                                                                         *)
(* Specifications: Spec is the script with every failure and every move of *)
(* the user; SpecLive is the undisturbed run, with fairness; SpecResolve    *)
(* lets comicConfigs carry any url patterns; SpecCompose applies the        *)
(* compositing of generateImage to page images and caption blocks.         *)
(***************************************************************************)
EXTENDS Integers, Sequences, FiniteSets, TLC

\* ---------------------------------------------------------------- bounds
NumPages == 3     \* pages of the comic
MaxBudget == 3    \* largest page count the user enters
MaxTasks == 2     \* processPage calls alive in one execution context

\* ----------------------------------------------------------------- world
HomeURL == 0      \* URL of the origin that no config.url regex matches
NoLink == -1      \* undefined: document has no next link ([0] of an empty array)
NaN == -2         \* pageCount of the default state {} (undefined; undefined - 1 is NaN)

Pages == 1..NumPages
URLs == {HomeURL} \cup Pages
Budgets == 1..MaxBudget

StateKey == "archivalState"
Undefined == "undefined"

\* The registered adapters, in declaration order; url is the set of URLs of
\* this origin that the adapter's regex matches.
comicConfigs ==
    << [name |-> "Nedroid Picture Diary", url |-> {}],
       [name |-> "Buttersafe", url |-> Pages],
       [name |-> "Paranatural", url |-> {}] >>

\* Fault: the scan keeps the last config that matches.
FindFromLast(configs, url, i) ==
    LET hits == {k \in i..Len(configs) : url \in configs[k].url}
    IN IF hits = {} THEN 0 ELSE CHOOSE k \in hits : \A h \in hits : h <= k

\* Array.prototype.find(it => it.url.exec(url)), scanning from index i: the
\* index of the first config whose regex matches, 0 (undefined) if none does.
RECURSIVE FindFrom(_, _, _)
FindFrom(configs, url, i) ==
    IF i > Len(configs)
    THEN 0
    ELSE IF url \in configs[i].url
         THEN i
         ELSE FindFrom(configs, url, i + 1)

\* config.pageNumber(): the page's enumerator, a string taken from the URL
pageNumber(url) == ToString(url)

\* config.nextPageURL(): the values the hook can return on page url.  The last
\* page either has no next link (undefined) or links to itself.
nextPageURL(url) == IF url < NumPages THEN {url + 1} ELSE {NoLink, url}

\* the base64 text of the composited page, as cached by generateImage
Base64Of(url) == <<"jpeg", url>>

\* bookName({firstPage, lastPage}) + '.cbz'
bookName(firstPage, lastPage) == <<"Buttersafe", firstPage, "to", lastPage, ".cbz">>

\* --------------------------------------------------------- sessionStorage
EmptyStore == [k \in {} |-> 0]
Has(s, k) == k \in DOMAIN s
setItem(s, k, v) == [x \in DOMAIN s \cup {k} |-> IF x = k THEN v ELSE s[x]]
removeItem(s, k) == [x \in DOMAIN s \ {k} |-> s[x]]
CachedKeys(s) == DOMAIN s \ {StateKey}

\* ------------------------------------------------------------------ state
VARIABLES
    location,   \* window.location.href
    store,      \* sessionStorage: key -> value
    tasks,      \* the processPage calls alive in this execution context, oldest first
    download,   \* the archive the last step delivered, or failed to assemble
    last,       \* the step taken last
    origin,     \* history: budget the run that wrote archivalState was started with
    run,        \* history: the latest start, and whether anything disturbed it
    outcome,    \* how the call that took the last step left it, if it ended there
    loaded,     \* config.pageLoaded() returns true on the current document
    registry,   \* the comicConfigs array of the script
    canvas      \* the canvas image.onload composited last

vars == <<location, store, tasks, download, last, origin, run, outcome, loaded,
          registry, canvas>>

\* Line 284: comicConfigs.find(it => it.url.exec(url))
FindConfig(url) == FindFrom(registry, url, 1)

\* no canvas composited yet
NoCanvas ==
    [made |-> FALSE, image |-> [width |-> 0, height |-> 0], topText |-> <<>>,
     bottomText |-> <<>>, width |-> 0, height |-> 0, draws |-> <<>>]
NoDownload == [name |-> <<>>, entries |-> <<>>, delivered |-> FALSE]
\* run.clean: nothing has disturbed the latest run (no failure, no reload or
\* navigation by the user, no other start); run.solo: the latest start found
\* no earlier call in flight.
Dirty == [budget |-> 0, startPage |-> 0, clean |-> FALSE, solo |-> FALSE]
Disturbed(r) == [Dirty EXCEPT !.solo = r.solo]

Idle ==
    [pc |-> "idle", pageCount |-> 0, images |-> <<>>, filename |-> Undefined,
     nextLink |-> NoLink, zip |-> <<>>, firstPage |-> Undefined,
     lastPage |-> Undefined, readImages |-> <<>>, budget |-> 0,
     wrote |-> FALSE, cfg |-> 0]

SyncPcs == {"push", "decide", "persist", "navigate", "build"}
Slots == 1..Len(tasks)
NoSync == \A i \in Slots : tasks[i].pc \notin SyncPcs
Quiet == tasks = <<>>

\* A call that returned, threw, or whose promise can never settle runs no
\* further step: it leaves the list.
End(t) == SubSeq(tasks, 1, t - 1) \o SubSeq(tasks, t + 1, Len(tasks))
Spawn(ts, task) == IF task.pc = "idle" THEN ts ELSE Append(ts, task)

\* ------------------------------------------------------------ processPage
\* Fault: the call starts from an empty images list instead of the stored one.
processPageFresh(s, url, b) ==
    IF FindConfig(url) = 0
    THEN Idle
    ELSE [Idle EXCEPT
            !.pc = "wait",
            !.cfg = FindConfig(url),
            !.pageCount = IF Has(s, StateKey) THEN s[StateKey].pageCount ELSE NaN,
            !.budget = b]

\* Lines 281-295: read the state, resolve the adapter, suspend on pageLoaded.
\* readImages (history) keeps the images list as read; b is the history tag
\* of the state read.
processPageBegin(s, url, b) ==
    IF FindConfig(url) = 0
    THEN Idle
    ELSE [Idle EXCEPT
            !.pc = "wait",
            !.cfg = FindConfig(url),
            !.pageCount = IF Has(s, StateKey) THEN s[StateKey].pageCount ELSE NaN,
            !.images = IF Has(s, StateKey) THEN s[StateKey].images ELSE <<>>,
            !.readImages = IF Has(s, StateKey) THEN s[StateKey].images ELSE <<>>,
            !.budget = b]

\* Userscript entry, lines 382-385, in a fresh execution context.
EntryTasks(s, url, b) ==
    IF Has(s, StateKey) THEN Spawn(<<>>, processPageBegin(s, url, b)) ELSE <<>>

\* startArchival(pageCount), lines 349-355, from the "Save Pages" click.
\* location.search holds no ?digits on this site: startPage is undefined and
\* JSON.stringify leaves it out.
StartState(n) == [pageCount |-> n, images |-> <<>>]

\* Fault: a start cancels the calls in flight.
startArchivalCancel(n) ==
    /\ NoSync
    /\ Len(tasks) < MaxTasks
    /\ store' = setItem(EmptyStore, StateKey, StartState(n))
    /\ tasks' = Spawn(<<>>, processPageBegin(store', location, n))
    /\ origin' = n
    /\ run' = IF Quiet
              THEN [budget |-> n, startPage |-> location, clean |-> TRUE, solo |-> TRUE]
              ELSE Dirty
    /\ download' = NoDownload
    /\ last' = "start"
    /\ outcome' = "none"
    /\ UNCHANGED <<location, loaded, registry, canvas>>

\* Fault: the new state is written without sessionStorage.clear().
startArchivalKeep(n) ==
    /\ NoSync
    /\ Len(tasks) < MaxTasks
    /\ store' = setItem(store, StateKey, StartState(n))
    /\ tasks' = Spawn(tasks, processPageBegin(store', location, n))
    /\ origin' = n
    /\ run' = IF Quiet
              THEN [budget |-> n, startPage |-> location, clean |-> TRUE, solo |-> TRUE]
              ELSE Dirty
    /\ download' = NoDownload
    /\ last' = "start"
    /\ outcome' = "none"
    /\ UNCHANGED <<location, loaded, registry, canvas>>

startArchival(n) ==
    /\ NoSync
    /\ Len(tasks) < MaxTasks
    /\ store' = setItem(EmptyStore, StateKey, StartState(n))
    /\ tasks' = Spawn(tasks, processPageBegin(store', location, n))
    /\ origin' = n
    /\ run' = IF Quiet
              THEN [budget |-> n, startPage |-> location, clean |-> TRUE, solo |-> TRUE]
              ELSE Dirty
    /\ download' = NoDownload
    /\ last' = "start"
    /\ outcome' = "none"
    /\ UNCHANGED <<location, loaded, registry, canvas>>

\* The user reloads the page or goes to another URL of the site: the
\* execution context ends and the entry runs on the new document.
UserNavigate(u) ==
    /\ NoSync
    /\ location' = u
    /\ tasks' = EntryTasks(store, u, origin)
    /\ run' = Disturbed(run)
    /\ download' = NoDownload
    /\ last' = "load"
    /\ outcome' = "none"
    /\ loaded' \in BOOLEAN
    /\ UNCHANGED <<store, origin, registry, canvas>>

\* What config.pageLoaded() looks at arrives (content fetched after the page
\* load): from now on the predicate returns true.
PageBecomesReady ==
    /\ NoSync
    /\ ~loaded
    /\ loaded' = TRUE
    /\ last' = "ready"
    /\ outcome' = "none"
    /\ download' = NoDownload
    /\ UNCHANGED <<location, store, tasks, origin, run, registry, canvas>>

\* waitForIt(predicate), the helper the userscript loads with @require (line
\* 14): its promise resolves once a poll of the predicate returns true.
waitForIt(predicate) == predicate

\* await waitForIt(config.pageLoaded) resumes; generateImage lines 219-224 call
\* pageNumber() and imageURL() and start the image load.  A hook that throws
\* rejects generateImage's promise and ends processPage.
PageReadyOk(t) ==
    /\ NoSync
    /\ tasks[t].pc = "wait"
    /\ waitForIt(loaded)
    /\ tasks' = [tasks EXCEPT ![t].pc = "imgload",
                              ![t].filename = pageNumber(location)]
    /\ last' = "extract"
    /\ outcome' = "none"
    /\ download' = NoDownload
    /\ UNCHANGED <<location, store, origin, run, loaded, registry, canvas>>

PageReadyThrow(t) ==
    /\ NoSync
    /\ tasks[t].pc = "wait"
    /\ waitForIt(loaded)
    /\ tasks' = End(t)
    /\ run' = Disturbed(run)
    /\ last' = "extractThrow"
    /\ outcome' = "threw"
    /\ download' = NoDownload
    /\ UNCHANGED <<location, store, origin, loaded, registry, canvas>>

PageReady(t) == PageReadyOk(t) \/ PageReadyThrow(t)

\* image.onload, lines 227-274: topText()/bottomText(), compositing, toBlob.
\* A hook that throws inside onload rejects the promise of the async onload
\* function, not the one generateImage returned; an image that fails to load
\* fires no onload, and there is no onerror handler.  Either way the promise
\* of generateImage stays pending for ever.
ImageLoadedOk(t) ==
    /\ NoSync
    /\ tasks[t].pc = "imgload"
    /\ tasks' = [tasks EXCEPT ![t].pc = "encode"]
    /\ last' = "composite"
    /\ outcome' = "none"
    /\ download' = NoDownload
    /\ UNCHANGED <<location, store, origin, run, loaded, registry, canvas>>

\* topText() or bottomText() throws inside onload (lines 229-230)
ImageLoadedThrow(t) ==
    /\ NoSync
    /\ tasks[t].pc = "imgload"
    /\ tasks' = End(t)
    /\ run' = Disturbed(run)
    /\ last' = "hookThrow"
    /\ outcome' = "pending"
    /\ download' = NoDownload
    /\ UNCHANGED <<location, store, origin, loaded, registry, canvas>>

\* the image fails to load: onload never fires, nothing else is listening
ImageFails(t) ==
    /\ NoSync
    /\ tasks[t].pc = "imgload"
    /\ tasks' = End(t)
    /\ run' = Disturbed(run)
    /\ last' = "imageFail"
    /\ outcome' = "pending"
    /\ download' = NoDownload
    /\ UNCHANGED <<location, store, origin, loaded, registry, canvas>>

ImageLoaded(t) == ImageLoadedOk(t) \/ ImageLoadedThrow(t) \/ ImageFails(t)

\* Fault: resolve(filename) runs although the page was not stored.
EncodedUncached(t) ==
    /\ NoSync
    /\ tasks[t].pc = "encode"
    /\ tasks' = [tasks EXCEPT ![t].pc = "push", ![t].wrote = TRUE]
    /\ last' = "cache"
    /\ outcome' = "none"
    /\ download' = NoDownload
    /\ UNCHANGED <<location, store, origin, run, loaded, registry, canvas>>

\* Fault: a setItem that throws is swallowed and the call goes on.
EncodedSwallow(t) ==
    /\ NoSync
    /\ tasks[t].pc = "encode"
    /\ \/ /\ store' = setItem(store, tasks[t].filename, Base64Of(location))
          /\ tasks' = [tasks EXCEPT ![t].pc = "push", ![t].wrote = TRUE]
          /\ run' = run
          /\ last' = "cache"
          /\ outcome' = "none"
       \/ /\ store' = store
          /\ tasks' = [tasks EXCEPT ![t].pc = "push"]
          /\ run' = Disturbed(run)
          /\ last' = "cacheFail"
          /\ outcome' = "none"
    /\ download' = NoDownload
    /\ UNCHANGED <<location, origin, loaded, registry, canvas>>

\* toBlob callback, lines 269-274: sessionStorage.setItem(filename, base64),
\* then resolve(filename).  A setItem that throws (quota) leaves the promise
\* pending.  The continuation of processPage runs in the same microtask
\* checkpoint: the synchronous stretch starts here.
EncodedOk(t) ==
    /\ NoSync
    /\ tasks[t].pc = "encode"
    /\ store' = setItem(store, tasks[t].filename, Base64Of(location))
    /\ tasks' = [tasks EXCEPT ![t].pc = "push", ![t].wrote = TRUE]
    /\ last' = "cache"
    /\ outcome' = "none"
    /\ download' = NoDownload
    /\ UNCHANGED <<location, origin, run, loaded, registry, canvas>>

EncodedFail(t) ==
    /\ NoSync
    /\ tasks[t].pc = "encode"
    /\ tasks' = End(t)
    /\ run' = Disturbed(run)
    /\ last' = "cacheFail"
    /\ outcome' = "pending"
    /\ download' = NoDownload
    /\ UNCHANGED <<location, store, origin, loaded, registry, canvas>>

Encoded(t) == EncodedOk(t) \/ EncodedFail(t)

\* Fault: the page key is pushed onto images twice.
PushTwice(t) ==
    /\ tasks[t].pc = "push"
    /\ \/ /\ \E n \in nextPageURL(location) :
                tasks' = [tasks EXCEPT
                            ![t].pc = "decide",
                            ![t].images = Append(Append(tasks[t].images,
                                                        tasks[t].filename),
                                                 tasks[t].filename),
                            ![t].nextLink = n]
          /\ run' = run
          /\ last' = "push"
          /\ outcome' = "none"
       \/ /\ tasks' = End(t)
          /\ run' = Disturbed(run)
          /\ last' = "nextThrow"
          /\ outcome' = "threw"
    /\ download' = NoDownload
    /\ UNCHANGED <<location, store, origin, loaded, registry, canvas>>

\* Fault: a nextPageURL() that throws takes the page's cache entry with it.
PushEvict(t) ==
    /\ tasks[t].pc = "push"
    /\ \/ /\ \E n \in nextPageURL(location) :
                tasks' = [tasks EXCEPT
                            ![t].pc = "decide",
                            ![t].images = Append(tasks[t].images, tasks[t].filename),
                            ![t].nextLink = n]
          /\ store' = store
          /\ run' = run
          /\ last' = "push"
          /\ outcome' = "none"
       \/ /\ tasks' = End(t)
          /\ store' = removeItem(store, tasks[t].filename)
          /\ run' = Disturbed(run)
          /\ last' = "nextThrow"
          /\ outcome' = "threw"
    /\ download' = NoDownload
    /\ UNCHANGED <<location, origin, loaded, registry, canvas>>

\* Lines 300-303: images.push(filename); nextLink = config.nextPageURL().
PushOk(t) ==
    /\ tasks[t].pc = "push"
    /\ \E n \in nextPageURL(location) :
          tasks' = [tasks EXCEPT
                      ![t].pc = "decide",
                      ![t].images = Append(tasks[t].images, tasks[t].filename),
                      ![t].nextLink = n]
    /\ last' = "push"
    /\ outcome' = "none"
    /\ download' = NoDownload
    /\ UNCHANGED <<location, store, origin, run, loaded, registry, canvas>>

PushThrow(t) ==
    /\ tasks[t].pc = "push"
    /\ tasks' = End(t)
    /\ run' = Disturbed(run)
    /\ last' = "nextThrow"
    /\ outcome' = "threw"
    /\ download' = NoDownload
    /\ UNCHANGED <<location, store, origin, loaded, registry, canvas>>

Push(t) == PushOk(t) \/ PushThrow(t)

\* Fault: the budget test is late by one page (pageCount <= 0).
DoneLate(nextLink, url, pageCount) ==
    \/ nextLink = NoLink
    \/ nextLink = url
    \/ (pageCount # NaN /\ pageCount <= 0)

\* Fault: a next link that points at the current page is followed.
DoneNoSelf(nextLink, url, pageCount) ==
    \/ nextLink = NoLink
    \/ (pageCount # NaN /\ pageCount <= 1)

\* Fault: the budget test is early by one page (pageCount <= 2).
DoneEarly(nextLink, url, pageCount) ==
    \/ nextLink = NoLink
    \/ nextLink = url
    \/ (pageCount # NaN /\ pageCount <= 2)

\* Lines 304-312: the stop condition.  NaN <= 1 is false.
Done(nextLink, url, pageCount) ==
    \/ nextLink = NoLink
    \/ nextLink = url
    \/ (pageCount # NaN /\ pageCount <= 1)

\* Lines 313-318: branch to generateCBZ or to persist-and-navigate.
Decide(t) ==
    /\ tasks[t].pc = "decide"
    /\ tasks' = [tasks EXCEPT ![t].pc =
                    IF Done(tasks[t].nextLink, location, tasks[t].pageCount)
                    THEN "build" ELSE "persist"]
    /\ last' = "decide"
    /\ outcome' = "none"
    /\ download' = NoDownload
    /\ UNCHANGED <<location, store, origin, run, loaded, registry, canvas>>

\* Fault: the budget is written back without the decrement.
NextStateKeep(pageCount, images) == [pageCount |-> pageCount, images |-> images]

\* Fault: the budget is lowered by two for each page.
NextStateTwo(pageCount, images) ==
    [pageCount |-> IF pageCount = NaN THEN NaN ELSE pageCount - 2, images |-> images]

\* Line 319: the state written before navigating.
NextState(pageCount, images) ==
    [pageCount |-> IF pageCount = NaN THEN NaN ELSE pageCount - 1, images |-> images]

\* Fault: the write is placed after the navigation and so never runs.
PersistSkipped(t) ==
    /\ tasks[t].pc = "persist"
    /\ tasks' = [tasks EXCEPT ![t].pc = "navigate"]
    /\ last' = "persist"
    /\ outcome' = "none"
    /\ download' = NoDownload
    /\ UNCHANGED <<location, store, origin, run, loaded, registry, canvas>>

PersistOk(t) ==
    /\ tasks[t].pc = "persist"
    /\ store' = setItem(store, StateKey,
                        NextState(tasks[t].pageCount, tasks[t].images))
    /\ origin' = tasks[t].budget
    /\ tasks' = [tasks EXCEPT ![t].pc = "navigate"]
    /\ last' = "persist"
    /\ outcome' = "none"
    /\ download' = NoDownload
    /\ UNCHANGED <<location, run, loaded, registry, canvas>>

PersistFail(t) ==
    /\ tasks[t].pc = "persist"
    /\ tasks' = End(t)
    /\ run' = Disturbed(run)
    /\ last' = "persistFail"
    /\ outcome' = "threw"
    /\ download' = NoDownload
    /\ UNCHANGED <<location, store, origin, loaded, registry, canvas>>

Persist(t) == PersistOk(t) \/ PersistFail(t)

\* Line 320: window.location.href = nextLink; the next document loads and the
\* entry runs there.
Navigate(t) ==
    /\ tasks[t].pc = "navigate"
    /\ location' = tasks[t].nextLink
    /\ tasks' = EntryTasks(store, tasks[t].nextLink, origin)
    /\ run' = IF Len(tasks) = 1 THEN run ELSE Disturbed(run)
    /\ last' = "navigate"
    /\ outcome' = "none"
    /\ download' = NoDownload
    /\ loaded' \in BOOLEAN
    /\ UNCHANGED <<store, origin, registry, canvas>>

\* ------------------------------------------------------------ generateCBZ
\* Fault: a key with no cached entry ends the loop.
RECURSIVE DrainAbort(_, _, _)
DrainAbort(images, i, acc) ==
    IF i > Len(images)
    THEN acc
    ELSE LET filename == images[i] IN
         IF Has(acc.store, filename)
         THEN DrainAbort(images, i + 1,
                    [store |-> removeItem(acc.store, filename),
                     zip |-> Append(acc.zip, <<filename, ".jpg">>),
                     firstPage |-> IF acc.firstPage = Undefined
                                   THEN filename ELSE acc.firstPage,
                     lastPage |-> filename])
         ELSE acc

\* Lines 327-336: images.forEach over the keys, from index i on.  acc is
\* [store, zip, firstPage, lastPage].
RECURSIVE Drain(_, _, _)
Drain(images, i, acc) ==
    IF i > Len(images)
    THEN acc
    ELSE LET filename == images[i] IN
         IF Has(acc.store, filename)
         THEN Drain(images, i + 1,
                    [store |-> removeItem(acc.store, filename),
                     zip |-> Append(acc.zip, <<filename, ".jpg">>),
                     firstPage |-> IF acc.firstPage = Undefined
                                   THEN filename ELSE acc.firstPage,
                     lastPage |-> filename])
         ELSE Drain(images, i + 1, acc)

Build(t) ==
    /\ tasks[t].pc = "build"
    /\ LET r == Drain(tasks[t].images, 1,
                      [store |-> store, zip |-> <<>>,
                       firstPage |-> Undefined, lastPage |-> Undefined])
       IN /\ store' = r.store
          /\ tasks' = [tasks EXCEPT ![t] =
                        [Idle EXCEPT !.pc = "zipping", !.zip = r.zip,
                                     !.firstPage = r.firstPage,
                                     !.lastPage = r.lastPage,
                                     !.images = tasks[t].images,
                                     !.budget = tasks[t].budget,
                                     !.cfg = tasks[t].cfg]]
    /\ last' = "build"
    /\ outcome' = "none"
    /\ download' = NoDownload
    /\ UNCHANGED <<location, origin, run, loaded, registry, canvas>>

\* Fault: the delivery leaves archivalState in the store.
DeliverKeepState(t) ==
    /\ NoSync
    /\ tasks[t].pc = "zipping"
    /\ download' = [name |-> bookName(tasks[t].firstPage, tasks[t].lastPage),
                    entries |-> tasks[t].zip, delivered |-> TRUE]
    /\ tasks' = End(t)
    /\ last' = "deliver"
    /\ outcome' = "returned"
    /\ UNCHANGED <<location, store, origin, run, loaded, registry, canvas>>

\* Lines 337-346: generateAsync resolved; the link is clicked and
\* archivalState removed.
Deliver(t) ==
    /\ NoSync
    /\ tasks[t].pc = "zipping"
    /\ download' = [name |-> bookName(tasks[t].firstPage, tasks[t].lastPage),
                    entries |-> tasks[t].zip, delivered |-> TRUE]
    /\ store' = removeItem(store, StateKey)
    /\ origin' = 0
    /\ tasks' = End(t)
    /\ last' = "deliver"
    /\ outcome' = "returned"
    /\ UNCHANGED <<location, run, loaded, registry, canvas>>

\* Fault: a failed assembly removes archivalState all the same.
ZipFailCleanup(t) ==
    /\ NoSync
    /\ tasks[t].pc = "zipping"
    /\ tasks' = End(t)
    /\ store' = removeItem(store, StateKey)
    /\ origin' = 0
    /\ run' = Disturbed(run)
    /\ last' = "zipFail"
    /\ outcome' = "threw"
    /\ download' = [name |-> <<>>, entries |-> tasks[t].zip, delivered |-> FALSE]
    /\ UNCHANGED <<location, loaded, registry, canvas>>

\* generateAsync rejects, or bookName throws before the click: the promise
\* chain ends with nothing delivered and nothing removed.
ZipFail(t) ==
    /\ NoSync
    /\ tasks[t].pc = "zipping"
    /\ tasks' = End(t)
    /\ run' = Disturbed(run)
    /\ last' = "zipFail"
    /\ outcome' = "threw"
    /\ download' = [name |-> <<>>, entries |-> tasks[t].zip, delivered |-> FALSE]
    /\ UNCHANGED <<location, store, origin, loaded, registry, canvas>>

\* ---------------------------------------------------------- specification
Init ==
    /\ location \in URLs
    /\ store = EmptyStore
    /\ tasks = <<>>
    /\ download = NoDownload
    /\ last = "init"
    /\ origin = 0
    /\ run = Disturbed([solo |-> TRUE])
    /\ outcome = "none"
    /\ loaded \in BOOLEAN
    /\ registry = comicConfigs
    /\ canvas = NoCanvas

Next ==
    \/ \E n \in Budgets : startArchival(n)
    \/ \E u \in URLs : UserNavigate(u)
    \/ PageBecomesReady
    \/ \E t \in Slots :
        \/ PageReady(t)
        \/ ImageLoaded(t)
        \/ Encoded(t)
        \/ Push(t)
        \/ Decide(t)
        \/ Persist(t)
        \/ Navigate(t)
        \/ Build(t)
        \/ Deliver(t)
        \/ ZipFail(t)

Spec == Init /\ [][Next]_vars

\* ------------------------------------------- the undisturbed run, with fairness
\* A run that nothing disturbs: the user starts runs, one at a time, and does
\* nothing else; no hook throws, every image loads, no setItem fails, the
\* archive assembles.
StartRun(n) == Quiet /\ startArchival(n)

CallStep ==
    \E t \in Slots :
        \/ PageReadyOk(t)
        \/ ImageLoadedOk(t)
        \/ EncodedOk(t)
        \/ PushOk(t)
        \/ Decide(t)
        \/ PersistOk(t)
        \/ Navigate(t)
        \/ Build(t)
        \/ Deliver(t)

NextLive ==
    \/ \E n \in Budgets : StartRun(n)
    \/ PageBecomesReady
    \/ CallStep

\* The event loop runs every continuation that is ready (weak fairness of the
\* calls' steps, which covers the image load, the encoding and the assembly
\* completing); the page becomes ready if it is not.
SpecLive ==
    /\ Init
    /\ [][NextLive]_vars
    /\ WF_vars(PageBecomesReady)
    /\ WF_vars(CallStep)

\* ----------------------------------------------- adapter lookup, any registry
\* The url regexes an adapter of this origin can carry, as the sets of URLs
\* they match: nothing, one URL, every comic page, every URL of the origin.
Patterns == {{}, {HomeURL}, {1}, Pages, URLs}

\* comicConfigs with each of these patterns in each position
Registries ==
    {[i \in 1..Len(comicConfigs) |->
        [name |-> comicConfigs[i].name, url |-> f[i]]] :
     f \in [1..Len(comicConfigs) -> Patterns]}

InitResolve ==
    /\ location \in URLs
    /\ store = EmptyStore
    /\ tasks = <<>>
    /\ download = NoDownload
    /\ last = "init"
    /\ origin = 0
    /\ run = Disturbed([solo |-> TRUE])
    /\ outcome = "none"
    /\ loaded \in BOOLEAN
    /\ registry \in Registries
    /\ canvas = NoCanvas

\* Loads and starts, up to the first hooks a call invokes (pageNumber and
\* imageURL, in generateImage).
NextResolve ==
    \/ \E n \in Budgets : startArchival(n)
    \/ \E u \in URLs : UserNavigate(u)
    \/ PageBecomesReady
    \/ \E t \in Slots : PageReadyOk(t)

SpecResolve == InitResolve /\ [][NextResolve]_vars

\* ------------------------------------------------ compositing (generateImage)
\* A caption text is null, or a string: the sequence of its paragraphs (split
\* on newlines), each the sequence of its words (split on blanks), each word
\* given by the width measureText reports for it.  '' splits into one
\* paragraph of one empty word.
Null == "null"
EmptyText == << <<0>> >>
SpaceWidth == 1
Truthy(text) == text # Null /\ text # EmptyText

\* Lines 34-59, the fields the layout height depends on.
defaultTextParams ==
    [text |-> EmptyText, paddingTop |-> 5, paddingBottom |-> 5,
     paddingLeft |-> 5, paddingRight |-> 5, fontSize |-> 18, lineHeight |-> 20]

\* _.defaults(it, defaultTextParams): the fields it leaves undefined are
\* taken from the defaults (null is not undefined)
Defaults(it) ==
    [k \in DOMAIN defaultTextParams \cup DOMAIN it |->
        IF k \in DOMAIN it THEN it[k] ELSE defaultTextParams[k]]

\* Lines 180-193: the wrapped lines of one paragraph, from word j on; line is
\* the line being filled ([w: its width, empty: it is '']), n the lines pushed.
RECURSIVE WrapWords(_, _, _, _, _)
WrapWords(words, j, line, n, usableWidth) ==
    IF j > Len(words)
    THEN n + 1
    ELSE LET testLine ==
                [w |-> IF line.empty THEN words[j]
                       ELSE line.w + SpaceWidth + words[j],
                 empty |-> line.empty /\ words[j] = 0]
         IN IF testLine.w > usableWidth /\ ~line.empty
            THEN WrapWords(words, j + 1,
                           [w |-> words[j], empty |-> words[j] = 0],
                           n + 1, usableWidth)
            ELSE WrapWords(words, j + 1, testLine, n, usableWidth)

\* Lines 176-194: wrappedLines.length for the paragraphs from i on
RECURSIVE WrappedLines(_, _, _)
WrappedLines(lines, i, usableWidth) ==
    IF i > Len(lines)
    THEN 0
    ELSE WrapWords(lines[i], 1, [w |-> 0, empty |-> TRUE], 0, usableWidth)
         + WrappedLines(lines, i + 1, usableWidth)

\* createWrappedTextCanvas(maxWidth, spec), lines 168-214: the size of the
\* canvas returned
createWrappedTextCanvas(maxWidth, spec) ==
    LET usableWidth == maxWidth - spec.paddingLeft - spec.paddingRight
        wrapped == WrappedLines(spec.text, 1, usableWidth)
    IN [width |-> maxWidth,
        height |-> wrapped * spec.lineHeight + spec.lineHeight - spec.fontSize
                   + spec.paddingTop + spec.paddingBottom]

\* Fault: a block with an empty text gets its padded canvas all the same.
RECURSIVE TextCanvasesAll(_, _, _)
TextCanvasesAll(specs, i, width) ==
    IF i > Len(specs)
    THEN <<>>
    ELSE LET it == Defaults(specs[i])
             c == createWrappedTextCanvas(width,
                     IF it.text = Null THEN [it EXCEPT !.text = EmptyText]
                     ELSE it)
         IN <<[src |-> i, width |-> c.width, height |-> c.height]>>
            \o TextCanvasesAll(specs, i + 1, width)

\* Lines 235-241 and 242-248: the canvases of the blocks, from index i on,
\* whose text is truthy once the defaults are in; src is the block's index.
RECURSIVE TextCanvases(_, _, _)
TextCanvases(specs, i, width) ==
    IF i > Len(specs)
    THEN <<>>
    ELSE LET it == Defaults(specs[i]) IN
         IF Truthy(it.text)
         THEN LET c == createWrappedTextCanvas(width, it)
              IN <<[src |-> i, width |-> c.width, height |-> c.height]>>
                 \o TextCanvases(specs, i + 1, width)
         ELSE TextCanvases(specs, i + 1, width)

RECURSIVE SumHeight(_, _)
SumHeight(canvases, i) ==
    IF i > Len(canvases) THEN 0
    ELSE canvases[i].height + SumHeight(canvases, i + 1)

\* Lines 255-258 and 263-266: drawImage of each canvas from index i on at
\* currentYPos, which advances by the canvas height
RECURSIVE DrawAll(_, _, _, _)
DrawAll(canvases, i, kind, currentYPos) ==
    IF i > Len(canvases)
    THEN <<>>
    ELSE <<[kind |-> kind, src |-> canvases[i].src, y |-> currentYPos,
            width |-> canvases[i].width, height |-> canvases[i].height]>>
         \o DrawAll(canvases, i + 1, kind, currentYPos + canvases[i].height)

\* image.onload, lines 232-267: the size of the canvas and what is drawn on
\* it, in drawing order
Composite(image, topText, bottomText) ==
    LET tops == TextCanvases(topText, 1, image.width)
        bottoms == TextCanvases(bottomText, 1, image.width)
        totalHeight == image.height + SumHeight(tops, 1) + SumHeight(bottoms, 1)
        afterTops == SumHeight(tops, 1)
    IN [made |-> TRUE, image |-> image, topText |-> topText,
        bottomText |-> bottomText,
        width |-> image.width, height |-> totalHeight,
        draws |-> DrawAll(tops, 1, "top", 0)
                  \o <<[kind |-> "image", src |-> 0, y |-> afterTops,
                        width |-> image.width, height |-> image.height]>>
                  \o DrawAll(bottoms, 1, "bottom", afterTops + image.height)]

\* The page images and caption blocks compositing is applied to.
MaxBlocks == 2    \* caption blocks in topText() and in bottomText()
Images == {[width |-> 40, height |-> 30], [width |-> 16, height |-> 9]}
OneWord == << <<8>> >>
Verse == << <<8, 8, 8>>, <<0>>, <<30>> >>
TextBlockSpecs ==
    { [text |-> EmptyText],
      [paddingTop |-> 0],
      [text |-> Null, lineHeight |-> 12],
      [text |-> OneWord],
      [text |-> Verse, fontSize |-> 10, lineHeight |-> 12, paddingLeft |-> 0,
       paddingRight |-> 0] }
BlockLists == UNION {[1..n -> TextBlockSpecs] : n \in 0..MaxBlocks}

InitCompose ==
    /\ location \in Pages
    /\ store = EmptyStore
    /\ tasks = <<>>
    /\ download = NoDownload
    /\ last = "init"
    /\ origin = 0
    /\ run = Disturbed([solo |-> TRUE])
    /\ outcome = "none"
    /\ loaded = TRUE
    /\ registry = comicConfigs
    /\ canvas = NoCanvas

Compose(image, topText, bottomText) ==
    /\ canvas' = Composite(image, topText, bottomText)
    /\ UNCHANGED <<location, store, tasks, download, last, origin, run, outcome,
                   loaded, registry>>

\* image.onload fires once for the page of the document
NextCompose ==
    /\ ~canvas.made
    /\ \E image \in Images : \E topText \in BlockLists : \E bottomText \in BlockLists :
          Compose(image, topText, bottomText)

SpecCompose == InitCompose /\ [][NextCompose]_vars

\* ================================================================ claims
Range(s) == {s[i] : i \in 1..Len(s)}
Min(a, b) == IF a <= b THEN a ELSE b
ValidNext(t) == tasks[t].nextLink # NoLink /\ tasks[t].nextLink # location

\* C1: in a run started with budget N >= 1 the images list, persisted or in
\* the memory of a processPage call, and the archive built from it, never
\* hold more than N page keys.
C1_BudgetBoundsImages ==
    /\ Has(store, StateKey) => Len(store[StateKey].images) <= origin
    /\ \A t \in Slots :
        /\ Len(tasks[t].images) <= tasks[t].budget
        /\ Len(tasks[t].zip) <= tasks[t].budget

\* C1 witness: a call about to finalize holds exactly N >= 2 keys.
C1_Witness ==
    \E t \in Slots :
        /\ tasks[t].pc = "build"
        /\ tasks[t].budget >= 2
        /\ Len(tasks[t].images) = tasks[t].budget

\* The archive of an undisturbed run: the pages from the start page on, as
\* many as the budget or as the comic has left.
CleanArchive ==
    LET k == Min(run.budget, NumPages - run.startPage + 1)
    IN  [i \in 1..k |-> <<pageNumber(run.startPage + i - 1), ".jpg">>]

\* C2: a run with budget N that nothing disturbs (no failure, no reload, no
\* other start) delivers an archive of exactly N entries, or of as many
\* entries as pages were reached when fewer than N are left.
C2_ExactlyNPages ==
    (download.delivered /\ run.clean) =>
        /\ Len(download.entries) = Min(run.budget, NumPages - run.startPage + 1)
        /\ download.entries = CleanArchive

\* C2 witness: an undisturbed run with budget N >= 2 delivered N entries.
C2_Witness ==
    /\ download.delivered
    /\ run.clean
    /\ run.budget >= 2
    /\ Len(download.entries) = run.budget

\* C2, the other case: fewer pages than the budget were left.
C2_WitnessShort ==
    /\ download.delivered
    /\ run.clean
    /\ Len(download.entries) >= 2
    /\ Len(download.entries) < run.budget

\* C3: when nextPageURL() returned a falsy value or the current location,
\* the decision is to finalize whatever the budget is, and a call that got
\* such a link never reaches the write of archivalState or the navigation.
C3_StopOnLastPage ==
    \A t \in Slots :
        /\ (last = "decide" /\ tasks[t].pc \in {"build", "persist"} /\ ~ValidNext(t))
                => tasks[t].pc = "build"
        /\ tasks[t].pc \in {"persist", "navigate"} => ValidNext(t)

\* C3 witness: finalization was chosen on a self-linking last page with
\* budget left.
C3_Witness ==
    \E t \in Slots :
        /\ last = "decide"
        /\ tasks[t].pc = "build"
        /\ tasks[t].nextLink = location
        /\ tasks[t].pageCount >= 2

\* C4 as stated: with a next link to another page, the decision is to
\* finalize exactly when the budget left after this page (pageCount - 1) is
\* at most 1.
C4_FinalizeWhenOneWouldRemain ==
    \A t \in Slots :
        (last = "decide" /\ tasks[t].pc \in {"build", "persist"} /\ ValidNext(t))
            => (tasks[t].pc = "build" <=> tasks[t].pageCount - 1 <= 1)

\* C4 amended: with a next link to another page, the decision is to finalize
\* exactly when the budget read for this page (pageCount) is at most 1, that
\* is when pageCount - 1 <= 0; otherwise the call goes on to navigate.
C4_FinalizeWhenBudgetSpent ==
    \A t \in Slots :
        (last = "decide" /\ tasks[t].pc \in {"build", "persist"} /\ ValidNext(t))
            => (tasks[t].pc = "build" <=> tasks[t].pageCount <= 1)

\* C4 witness: with pageCount = 2 and a link to another page the call goes on.
C4_Witness ==
    \E t \in Slots :
        /\ last = "decide"
        /\ ValidNext(t)
        /\ tasks[t].pageCount = 2
        /\ tasks[t].pc = "persist"

\* C5: when the navigation is triggered, archivalState already holds the
\* budget read by this call less one and the images read by this call with
\* the key of the current page appended; the navigation writes nothing and
\* leaves only the entry's call of the next document.
C5_PersistBeforeNavigate ==
    [][ /\ \A t \in 1..Len(tasks') :
            tasks'[t].pc = "navigate" =>
                /\ Has(store', StateKey)
                /\ store'[StateKey].pageCount = tasks'[t].pageCount - 1
                /\ store'[StateKey].images =
                        Append(tasks'[t].readImages, pageNumber(location'))
                /\ DOMAIN store'[StateKey] = {"pageCount", "images"}
        /\ \A t \in Slots :
            tasks[t].pc = "navigate" =>
                /\ store' = store
                /\ location' = tasks[t].nextLink
                /\ \A j \in 1..Len(tasks') : tasks'[j].pc = "wait"
                /\ Len(tasks') <= 1 ]_vars

\* C5 witness: a call on a later page of the run is about to navigate.
C5_Witness ==
    \E t \in Slots :
        /\ tasks[t].pc = "navigate"
        /\ tasks[t].readImages # <<>>

\* C6: a load (after a navigation of the script, a reload, or a navigation
\* of the user) leaves the store as it is; with archivalState present and an
\* adapter for the URL it starts one call holding the stored budget and
\* images, otherwise no call; and with no archivalState and no call in
\* flight nothing is written until startArchival.
C6_ResumeOnLoad ==
    [][ /\ last' \in {"load", "navigate"} =>
            /\ store' = store
            /\ IF Has(store, StateKey) /\ FindConfig(location') # 0
               THEN /\ Len(tasks') = 1
                    /\ tasks'[1].pc = "wait"
                    /\ tasks'[1].pageCount = store[StateKey].pageCount
                    /\ tasks'[1].images = store[StateKey].images
               ELSE tasks' = <<>>
        /\ (~Has(store, StateKey) /\ tasks = <<>>) =>
            \/ store' = store /\ tasks' = <<>>
            \/ last' = "start" ]_vars

\* C6 witness: the entry resumed a run that has pages behind it.
C6_Witness ==
    /\ last = "navigate"
    /\ Len(tasks) = 1
    /\ tasks[1].pc = "wait"
    /\ tasks[1].images # <<>>
    /\ tasks[1].images = store[StateKey].images

\* C6, the other case: a load with no archivalState starts nothing.
C6_WitnessAbsent ==
    /\ last = "load"
    /\ ~Has(store, StateKey)
    /\ CachedKeys(store) # {}
    /\ tasks = <<>>

\* C7 as stated: once an archive is delivered the store holds neither
\* archivalState nor any cached page, whatever reloads, navigations and
\* aborted attempts the run went through (runs overlapped by another start
\* set aside).
C7_StoreEmptyAfterDelivery ==
    (download.delivered /\ run.solo) => store = EmptyStore

\* Index of the first occurrence of k in s.
FirstIndex(s, k) ==
    CHOOSE i \in 1..Len(s) : s[i] = k /\ \A j \in 1..(i - 1) : s[j] # k

\* C8: generateCBZ puts into the archive one entry <key>.jpg for each key of
\* images that is cached when the build runs, in the order of images, skips
\* the keys that are not cached, evicts exactly the keys it found and leaves
\* the rest of the store alone; firstPage and lastPage, which name the
\* delivered archive, are the first and the last key found.
C8_ArchiveContents ==
    [][ /\ \A t \in Slots :
            tasks[t].pc = "build" =>
                LET imgs == tasks[t].images
                    found == {k \in Range(imgs) : Has(store, k)}
                    zip == tasks'[t].zip
                IN  /\ Len(tasks') = Len(tasks)
                    /\ tasks'[t].pc = "zipping"
                    /\ Range(zip) = {<<k, ".jpg">> : k \in found}
                    /\ Len(zip) = Cardinality(found)
                    /\ \A i, j \in 1..Len(zip) :
                        i < j => FirstIndex(imgs, zip[i][1]) < FirstIndex(imgs, zip[j][1])
                    /\ tasks'[t].firstPage = IF zip = <<>> THEN Undefined ELSE zip[1][1]
                    /\ tasks'[t].lastPage =
                            IF zip = <<>> THEN Undefined ELSE zip[Len(zip)][1]
                    /\ DOMAIN store' = DOMAIN store \ found
                    /\ \A k \in DOMAIN store' : store'[k] = store[k]
        /\ last' = "deliver" =>
            \E t \in Slots :
                /\ tasks[t].pc = "zipping"
                /\ download'.entries = tasks[t].zip
                /\ download'.name = bookName(tasks[t].firstPage, tasks[t].lastPage) ]_vars

\* C8 witness: a build that found some keys of images and skipped a key that
\* was not cached.
C8_Witness ==
    \E t \in Slots :
        /\ last = "build"
        /\ tasks[t].pc = "zipping"
        /\ tasks[t].zip # <<>>
        /\ \E k \in Range(tasks[t].images) : <<k, ".jpg">> \notin Range(tasks[t].zip)

\* C9 as stated: startArchival on a URL that no adapter matches leaves the
\* store exactly as it was.
C9_NoAdapterNoWrite ==
    [][ (last' = "start" /\ FindConfig(location) = 0) => store' = store ]_vars

\* C10 as stated: when the assembly of an archive fails, every page that
\* went into it is still cached.
C10_PagesKeptOnFailure ==
    last = "zipFail" =>
        \A i \in 1..Len(download.entries) : Has(store, download.entries[i][1])

\* C10 amended: a failed assembly removes nothing (archivalState goes only
\* with a delivery), but the pages that went into the archive were evicted
\* when the build ran, before the assembly started.
C10_EvictedBeforeAssembly ==
    [][ /\ \A t \in Slots :
            tasks[t].pc = "build" =>
                /\ tasks'[t].pc = "zipping"
                /\ \A i \in 1..Len(tasks'[t].zip) : ~Has(store', tasks'[t].zip[i][1])
        /\ last' = "zipFail" => store' = store
        /\ (Has(store, StateKey) /\ ~Has(store', StateKey)) => last' = "deliver" ]_vars

\* C10 witness: the assembly of a two-page archive failed; archivalState is
\* still there and no page is cached.
C10_Witness ==
    /\ last = "zipFail"
    /\ Len(download.entries) >= 2
    /\ Has(store, StateKey)
    /\ CachedKeys(store) = {}

\* ------------------------------------------------------------------- C11
\* The steps in which an adapter hook throws, and the position the call was
\* suspended or running at.
HookThrowLabels == {"extractThrow", "hookThrow", "nextThrow"}
ThrowPc(label) ==
    CASE label = "extractThrow" -> "wait"
      [] label = "hookThrow" -> "imgload"
      [] label = "nextThrow" -> "push"
      [] label = "imageFail" -> "imgload"
      [] label = "cacheFail" -> "encode"
      [] label = "persistFail" -> "persist"
      [] OTHER -> "idle"
\* the calls of the state before a step that the step can have ended
Enders(label) == {t \in Slots : tasks[t].pc = ThrowPc(label) /\ tasks' = End(t)}

\* C11 (as stated): when pageNumber, imageURL, topText, bottomText or
\* nextPageURL throws, the call that invoked it has written no cache entry for
\* its page, and the step changes neither the store (archivalState in
\* particular) nor the location, and leaves no call about to build an archive.
C11_NoEntryWhenHookThrows ==
    [][ last' \in HookThrowLabels =>
            /\ store' = store
            /\ location' = location
            /\ \A t \in Enders(last') : ~tasks[t].wrote
            /\ \A i \in 1..Len(tasks') : tasks'[i].pc \notin SyncPcs ]_vars

\* C11 (amended): pageNumber, imageURL, topText and bottomText throw before
\* the page is cached, nextPageURL throws after it was cached and the entry
\* stays in the store.  In every case the step changes neither the store nor
\* the location and the call takes no further step: it has thrown, or, for a
\* hook called inside image.onload, stays suspended for ever.
C11_EntryKeptWhenNextThrows ==
    [][ last' \in HookThrowLabels =>
            /\ store' = store
            /\ location' = location
            /\ Enders(last') # {}
            /\ \A t \in Enders(last') :
                  /\ tasks[t].wrote <=> last' = "nextThrow"
                  /\ tasks[t].wrote => Has(store', tasks[t].filename)
            /\ \A i \in 1..Len(tasks') : tasks'[i].pc \notin SyncPcs
            /\ outcome' = IF last' = "hookThrow" THEN "pending" ELSE "threw" ]_vars

\* nextPageURL() has thrown on a page of a run in progress: the page is cached.
C11_Witness ==
    /\ last = "nextThrow"
    /\ outcome = "threw"
    /\ Has(store, StateKey)
    /\ Has(store, pageNumber(location))

\* ------------------------------------------------------------------- C12
WriteFailLabels == {"cacheFail", "persistFail"}

\* C12: when sessionStorage.setItem throws for lack of space, on the page's
\* image or on archivalState, the store is left as it was (archivalState and
\* every cached page), the location does not change, and the call that
\* attempted the write takes no further step: nothing navigates or builds an
\* archive on its behalf.
C12_WriteFailureStopsRun ==
    [][ last' \in WriteFailLabels =>
            /\ store' = store
            /\ location' = location
            /\ Enders(last') # {}
            /\ Len(tasks') = Len(tasks) - 1
            /\ \A i \in 1..Len(tasks') : tasks'[i].pc \notin SyncPcs
            /\ outcome' \in {"pending", "threw"} ]_vars

\* The write of a later page's image failed: archivalState and the pages
\* completed before are still stored, and no call is left.
C12_Witness ==
    /\ last = "cacheFail"
    /\ Quiet
    /\ Has(store, StateKey)
    /\ store[StateKey].images # <<>>
    /\ \A k \in Range(store[StateKey].images) : Has(store, k)
    /\ ~Has(store, pageNumber(location))

\* The write of archivalState failed: the value stored is the one the call
\* had read, and its page stays cached.
C12_WitnessPersist ==
    /\ last = "persistFail"
    /\ Quiet
    /\ Has(store, StateKey)
    /\ pageNumber(location) \notin Range(store[StateKey].images)
    /\ Has(store, pageNumber(location))

\* ------------------------------------------------------------------- C13
\* C13: right after startArchival(N) the store holds archivalState alone, with
\* pageCount N and an empty images list, whatever an earlier run had left; the
\* processPage call it made, if the URL has a config, has read that state and
\* is suspended on pageLoaded with nothing extracted or cached yet.
C13_StartClearsStore ==
    last = "start" =>
        /\ DOMAIN store = {StateKey}
        /\ origin \in Budgets
        /\ store[StateKey] = [pageCount |-> origin, images |-> <<>>]
        /\ FindConfig(location) # 0 =>
              /\ tasks # <<>>
              /\ LET new == tasks[Len(tasks)] IN
                    /\ new.pc = "wait"
                    /\ new.pageCount = origin
                    /\ new.images = <<>>
                    /\ new.filename = Undefined
                    /\ ~new.wrote

\* A run was started while a call of an earlier run, which had pages listed
\* and cached, was still in flight: the store holds the new state only.
C13_Witness ==
    /\ last = "start"
    /\ Len(tasks) = 2
    /\ tasks[1].readImages # <<>>
    /\ tasks[1].budget # origin
    /\ CachedKeys(store) = {}

\* ------------------------------------------------------------------- C14
\* C14 (as stated): once a run has been started over a suspended call of an
\* earlier run, that earlier call (it precedes the new one in tasks) never
\* overwrites archivalState and heads for a navigation, and never enters
\* generateCBZ.
C14_FirstRunSilenced ==
    \A i \in Slots : \A j \in Slots :
        i < j => tasks[i].pc \notin {"navigate", "build"}

\* C14 (amended): a start replaces the content of the store but cancels
\* nothing: the calls in flight keep the pageCount and images they had read.
\* Whichever call persists writes its own pageCount - 1 and its own images
\* over archivalState, whichever navigates goes to its own next link, and
\* whichever delivers, delivers the archive built from its own images.
C14_FirstRunGoesOn ==
    [][ /\ last' = "start" =>
              /\ SubSeq(tasks', 1, Len(tasks)) = tasks
              /\ DOMAIN store' = {StateKey}
              /\ store'[StateKey].images = <<>>
        /\ last' = "persist" =>
              \A t \in Slots : tasks[t].pc = "persist" =>
                  /\ store'[StateKey] =
                        NextState(tasks[t].pageCount, tasks[t].images)
                  /\ origin' = tasks[t].budget
        /\ last' = "navigate" =>
              \A t \in Slots : tasks[t].pc = "navigate" =>
                  location' = tasks[t].nextLink
        /\ last' = "deliver" =>
              \E t \in Slots :
                  /\ tasks[t].pc = "zipping"
                  /\ tasks' = End(t)
                  /\ download'.entries = tasks[t].zip
                  /\ \A e \in Range(tasks[t].zip) :
                        e[1] \in Range(tasks[t].images) ]_vars

\* The older of two calls, of a run with another budget than the one started
\* after it, has just written its own state over the newer run's.
C14_Witness ==
    /\ last = "persist"
    /\ Len(tasks) = 2
    /\ tasks[1].pc = "navigate"
    /\ tasks[2].pc = "wait"
    /\ tasks[2].readImages = <<>>
    /\ tasks[1].budget # tasks[2].budget
    /\ origin = tasks[1].budget
    /\ store[StateKey] = NextState(tasks[1].pageCount, tasks[1].images)

\* ------------------------------------------------------------------- C15
NoDup(s) == \A i \in 1..Len(s) : \A j \in 1..Len(s) : i # j => s[i] # s[j]
PersistedImages == IF Has(store, StateKey) THEN store[StateKey].images ELSE <<>>
\* the calls that still hold the list they read (generateCBZ keeps images only)
Readers == {t \in Slots : tasks[t].pc # "zipping"}
Pushed == {"decide", "persist", "navigate", "build"}

\* C15 (as stated): the page keys being pairwise distinct (pageNumber is
\* injective), no images list, stored or held by a call, has a key twice,
\* reloads and navigation by the user included.
C15_NoDuplicateKeys ==
    /\ NoDup(PersistedImages)
    /\ \A t \in Slots : NoDup(tasks[t].images)

\* C15 (amended): a call appends the key of its page once to the list it read.
\* The list stays free of duplicates when the page's key was not in the list
\* read, and gets the key a second time when it was: that is the case when a
\* page already listed in archivalState is loaded again.  A run that nothing
\* disturbed never lists a key twice.
C15_DuplicateOnlyWhenRevisited ==
    /\ \A t \in Readers :
          LET key == pageNumber(location)
              old == tasks[t].readImages
          IN /\ tasks[t].images =
                    IF tasks[t].pc \in Pushed THEN Append(old, key) ELSE old
             /\ (NoDup(old) /\ key \notin Range(old)) => NoDup(tasks[t].images)
             /\ (tasks[t].pc \in Pushed /\ key \in Range(old))
                    => ~NoDup(tasks[t].images)
    /\ run.clean =>
          /\ NoDup(PersistedImages)
          /\ \A t \in Slots : NoDup(tasks[t].images)

\* After a reload or a navigation by the user the run went on over pages not
\* yet listed: two distinct keys are persisted.
C15_Witness ==
    /\ last = "persist"
    /\ ~run.clean
    /\ run.solo
    /\ Len(PersistedImages) >= 2
    /\ NoDup(PersistedImages)

\* A page already listed was loaded again: its key is persisted twice.
C15_WitnessRevisit ==
    /\ last = "persist"
    /\ run.solo
    /\ ~NoDup(PersistedImages)

\* ------------------------------------------------------------------- C16
\* C16: in an undisturbed run (pageLoaded becomes true on every page, every
\* image loads, no hook throws, no write fails), under fairness, a start with a
\* budget N >= 1 on a page that has a config leads to a state in which an
\* archive has been delivered and the store holds no archivalState; and no
\* call is ever past its wait on pageLoaded (so none has called pageNumber or
\* imageURL) on a document where pageLoaded has not returned true.
C16_RunDelivers ==
    /\ [](\A t \in Slots : tasks[t].pc # "wait" => loaded)
    /\ (last = "start" /\ origin \in Budgets /\ FindConfig(location) # 0)
          ~> (download.delivered /\ ~Has(store, StateKey))

\* An undisturbed run over more than one page has delivered, on a last page
\* that was not ready when it loaded.
C16_Witness ==
    /\ last = "deliver"
    /\ download.delivered
    /\ Len(download.entries) >= 2
    /\ ~Has(store, StateKey)
    /\ loaded

\* ------------------------------------------------------------------- C17
\* C17: when the page's image fails to load, the call that waits for it ends,
\* by returning or by throwing: it is not left suspended for ever.
C17_ImageFailureDetected ==
    last = "imageFail" => outcome \in {"returned", "threw"}

\* ------------------------------------------------------------------- C18
Matching(url) == {i \in 1..Len(registry) : url \in registry[i].url}

\* C18: whatever the url patterns of comicConfigs, every processPage call
\* works with the first config, in the order of the array, whose pattern
\* matches the URL, also when a later one matches too; on a URL no pattern
\* matches there is no call, and so no hook is invoked, after a load or a
\* start.
C18_FirstMatchWins ==
    /\ \A t \in Slots :
          /\ tasks[t].cfg \in Matching(location)
          /\ \A j \in Matching(location) : tasks[t].cfg <= j
    /\ Matching(location) = {} => tasks = <<>>
    /\ FindConfig(location) = 0 <=> Matching(location) = {}

\* A call has invoked the hooks of the second config on a URL that the third
\* config matches too, and the first does not.
C18_Witness ==
    /\ Len(tasks) >= 1
    /\ tasks[1].pc = "imgload"
    /\ tasks[1].cfg = 2
    /\ Matching(location) = {2, 3}

\* A start on a URL that no config matches: no call, no hook.
C18_WitnessNone ==
    /\ last = "start"
    /\ Matching(location) = {}
    /\ tasks = <<>>

\* ------------------------------------------------------------------- C19
\* the indices of the blocks of a list whose text, defaults applied, is truthy
NonEmpty(specs) == {i \in 1..Len(specs) : Truthy(Defaults(specs[i]).text)}
BlockHeight(specs, i, width) ==
    createWrappedTextCanvas(width, Defaults(specs[i])).height
RECURSIVE SumOver(_, _, _)
SumOver(specs, idx, width) ==
    IF idx = {} THEN 0
    ELSE LET i == CHOOSE k \in idx : TRUE
         IN BlockHeight(specs, i, width) + SumOver(specs, idx \ {i}, width)
KindRank(kind) == CASE kind = "top" -> 1 [] kind = "image" -> 2 [] OTHER -> 3
ListOf(kind) == IF kind = "top" THEN canvas.topText ELSE canvas.bottomText

\* C19: the composited canvas is as wide as the page image and as high as the
\* image plus the blocks whose text is non-empty once the defaults are
\* applied; a block with an empty, missing or null text adds no height and is
\* not drawn; the top blocks are drawn in the order given, then the image,
\* then the bottom blocks in the order given, each starting where the one
\* before ended, from 0 to the canvas height.
C19_CanvasLayout ==
    canvas.made =>
        LET d == canvas.draws
            w == canvas.image.width
            tops == NonEmpty(canvas.topText)
            bottoms == NonEmpty(canvas.bottomText)
        IN /\ canvas.width = w
           /\ canvas.height = canvas.image.height
                              + SumOver(canvas.topText, tops, w)
                              + SumOver(canvas.bottomText, bottoms, w)
           /\ Len(d) = Cardinality(tops) + 1 + Cardinality(bottoms)
           /\ {d[i].src : i \in {k \in 1..Len(d) : d[k].kind = "top"}} = tops
           /\ {d[i].src : i \in {k \in 1..Len(d) : d[k].kind = "bottom"}} = bottoms
           /\ \A i \in 1..Len(d) : \A j \in 1..Len(d) :
                 i < j =>
                    /\ KindRank(d[i].kind) <= KindRank(d[j].kind)
                    /\ d[i].kind = d[j].kind => d[i].src < d[j].src
           /\ \A i \in 1..Len(d) :
                 /\ d[i].y = IF i = 1 THEN 0 ELSE d[i - 1].y + d[i - 1].height
                 /\ d[i].width = w
                 /\ d[i].kind = "image" => d[i].height = canvas.image.height
                 /\ d[i].kind # "image" =>
                       d[i].height = BlockHeight(ListOf(d[i].kind), d[i].src, w)
           /\ d[Len(d)].y + d[Len(d)].height = canvas.height

\* Two top blocks, the first empty, the second wrapped over several lines, and
\* a bottom block: two blocks are drawn around the image.
C19_Witness ==
    /\ canvas.made
    /\ Len(canvas.topText) = 2
    /\ NonEmpty(canvas.topText) = {2}
    /\ NonEmpty(canvas.bottomText) = {1}
    /\ Len(canvas.draws) = 3
    /\ canvas.draws[1].height > canvas.draws[3].height
    /\ canvas.height > canvas.image.height + canvas.draws[1].height

\* ------------------------------------------------------------------- C20
\* C20: as long as no start has found another call in flight, every value of
\* archivalState has pageCount >= 1 and pageCount + Len(images) equal to the
\* budget N of the run; the start writes (N, []), and each later write takes
\* the value stored before it, lowers pageCount by one and appends the key of
\* the current page to images.
C20_BudgetPlusImages ==
    [][ (Has(store', StateKey) /\ run'.solo) =>
            /\ store'[StateKey].pageCount >= 1
            /\ store'[StateKey].pageCount + Len(store'[StateKey].images) = origin'
            /\ last' = "start" => store'[StateKey] = [pageCount |-> origin', images |-> <<>>]
            /\ last' = "persist" =>
                  /\ Has(store, StateKey)
                  /\ origin' = origin
                  /\ store'[StateKey].pageCount = store[StateKey].pageCount - 1
                  /\ store'[StateKey].images =
                        Append(store[StateKey].images, pageNumber(location))
            /\ last' \notin {"start", "persist"} =>
                  Has(store, StateKey) /\ store'[StateKey] = store[StateKey] ]_vars

\* The second write of a run of three: one page left on the budget, two keys.
C20_Witness ==
    /\ last = "persist"
    /\ run.solo
    /\ origin = 3
    /\ Has(store, StateKey)
    /\ store[StateKey].pageCount = 1
    /\ Len(store[StateKey].images) = 2

\* ------------------------------------------------------------------- C21
\* every key of the images list of archivalState, as stored in s, is cached in s
AllCached(s) ==
    Has(s, StateKey) => \A k \in Range(s[StateKey].images) : Has(s, k)

C21_WitnessCached ==
    /\ last = "persist"
    /\ run.solo
    /\ Len(PersistedImages) = 2
    /\ AllCached(store)

====
